---- MODULE Spec2Model ----
(***************************************************************************)
(* A model of the NHANES amalgam / inflammation-marker pipeline:           *)
(*   descriptive_stats.py : count_amalgam_surfaces, process_cycles,        *)
(*                          categorize_amalgam                             *)
(*   analysis.py          : prepare_groups, run_t_tests, main              *)
(*                                                                         *)
(* Three specifications share the module:                                  *)
(*   Spec   process_cycles over a configured directory, then the           *)
(*          prepare_groups call of analysis.main;                          *)
(*   SpecG  prepare_groups on a one-row table whose raw codes range over   *)
(*          bounded sets;                                                  *)
(*   SpecT  prepare_groups and run_t_tests on a table large enough to      *)
(*          reach the 10-observation threshold.                            *)
(***************************************************************************)
EXTENDS Integers, Sequences, FiniteSets, TLC

VARIABLES
    data_dir,       \* cycle -> the five files found in the directory
    pc,             \* position of process_cycles / main
    cyc,            \* index of the cycle the for loop is at
    df_all,         \* descriptive_stats.py:40
    all_summaries,  \* descriptive_stats.py:41
    skipped,        \* cycles for which "Skipped ..." was printed (line 95)
    combined_df,    \* descriptive_stats.py:97
    summary_df,     \* descriptive_stats.py:98
    labeled,        \* analysis.py:105, prepare_groups(combined)
    tdf,            \* the table handed to prepare_groups / run_t_tests
    tstage,         \* "raw" -> "grouped" -> "tested"
    results         \* analysis.py:38, rows appended by run_t_tests

vars == <<data_dir, pc, cyc, df_all, all_summaries, skipped, combined_df,
          summary_df, labeled, tdf, tstage, results>>

pvars == <<data_dir, pc, cyc, df_all, all_summaries, skipped, combined_df,
           summary_df, labeled>>

tvars == <<tdf, tstage, results>>

(***************************************************************************)
(* Bounds of the model.                                                    *)
(***************************************************************************)
NumCycles == 2      \* configured cycles (the repository configures ten)
MaxSubj == 2        \* subject identifiers 1..MaxSubj per source table
MaxAge == 61        \* ages 0..MaxAge in SpecG
MaxSurf == 12       \* surface counts 0..MaxSurf in SpecG
MaxCode == 6        \* raw gender / race codes 0..MaxCode in SpecG
MaxExtra == 1       \* group sizes 9..10+MaxExtra in SpecT

(***************************************************************************)
(* Floating point values.  <<n, d>> with d > 0 is the number n/d, <<0, 0>> *)
(* is NaN (pandas' missing value) and <<1, 0>> is +inf.  Only non-negative *)
(* values occur.  Multiplication and division follow IEEE: x/0 = inf for   *)
(* x > 0, 0/0 = NaN, NaN propagates.                                       *)
(***************************************************************************)
NaN == <<0, 0>>

Inf == <<1, 0>>

Num(n) == <<n, 1>>

Norm(v) == IF v[2] = 0 THEN (IF v[1] = 0 THEN NaN ELSE Inf) ELSE v

Mul(a, b) == Norm(<<a[1] * b[1], a[2] * b[2]>>)

Div(a, b) == Norm(<<a[1] * b[2], a[2] * b[1]>>)

\* pd.isna / what dropna drops: NaN only, inf is kept
IsNa(v) == v = NaN

\* v <= n and v = n for a non-missing v and an integer n
LeqInt(v, n) == v[2] # 0 /\ v[1] <= n * v[2]

EqInt(v, n) == v[2] # 0 /\ v[1] = n * v[2]

\* A p-value is an integer count of 1e-7; PNaN is the p-value NaN
PNaN == 0 - 1

(***************************************************************************)
(* Tables.  A table is [cols, rows]: a set of column names and a sequence  *)
(* of rows, each a function from the columns to values.                    *)
(***************************************************************************)
RECURSIVE Flatten(_)
Flatten(ss) == IF ss = <<>> THEN <<>> ELSE Head(ss) \o Flatten(Tail(ss))

NaRow(cols) == [c \in cols |-> NaN]

\* DataFrame.get(col, default) read at one row
Get(df, row, col, default) == IF col \in df.cols THEN row[col] ELSE default

\* Merge with the key comparison lost: every right row matches every left row
MergeCross(left, right, how) ==
    LET joined(l) ==
            IF right.rows = <<>>
            THEN IF how = "left"
                 THEN <<l @@ NaRow(right.cols \ {"SEQN"})>>
                 ELSE <<>>
            ELSE [i \in 1..Len(right.rows) |-> l @@ right.rows[i]]
    IN [cols |-> left.cols \cup right.cols,
        rows |-> Flatten([i \in 1..Len(left.rows) |-> joined(left.rows[i])])]

\* DataFrame.merge(right, on="SEQN", how=how): for each left row in order,
\* its matching right rows in order; how="left" keeps an unmatched left row
\* with the right columns missing, how="inner" drops it.
Merge(left, right, how) ==
    LET match(l) == SelectSeq(right.rows, LAMBDA r : r.SEQN = l.SEQN)
        joined(l) ==
            LET m == match(l) IN
            IF m = <<>>
            THEN IF how = "left"
                 THEN <<l @@ NaRow(right.cols \ {"SEQN"})>>
                 ELSE <<>>
            ELSE [i \in 1..Len(m) |-> l @@ m[i]]
    IN [cols |-> left.cols \cup right.cols,
        rows |-> Flatten([i \in 1..Len(left.rows) |-> joined(left.rows[i])])]

\* pd.concat(dfs, ignore_index=True): rows stacked, columns united, a column
\* a frame lacks filled with NaN
Concat(dfs) ==
    LET cols == UNION {dfs[i].cols : i \in 1..Len(dfs)}
        pad(df) == [j \in 1..Len(df.rows) |-> df.rows[j] @@ NaRow(cols \ df.cols)]
    IN [cols |-> cols,
        rows |-> Flatten([i \in 1..Len(dfs) |-> pad(dfs[i])])]

(***************************************************************************)
(* descriptive_stats.py: configuration and the files of the directory.     *)
(***************************************************************************)
Cycles == 1..NumCycles

Subjects == 1..MaxSubj

\* the order of the 5-tuples of CBC_DEMO_DENTAL_FILES
Roles == <<"cbc", "demo", "dental", "crp", "mercury">>

RoleSet == {Roles[i] : i \in 1..Len(Roles)}

Markers == <<"NLR", "MLR", "PLR", "SII", "CRP", "BloodMercury">>

MarkerSet == {Markers[i] : i \in 1..Len(Markers)}

\* the code that marks an amalgam-filled surface
AmalgamCode == 2

\* c.startswith("OHX") and c.endswith(("TC", "FS", "FT")), on the dental
\* columns the model's files carry
IsSurfaceCol(c) == c \in {"OHX02TC", "OHX02FS", "OHX03FT"}

Restrict(row, cols) == [c \in cols |-> row[c]]

\* The variations of a cycle's five files.  fail: the file that is missing;
\* nokey: the file without a SEQN column; dup: the file that holds subject 1
\* twice; empty: the file without rows; weight: the WTMEC2YR column; lym: the
\* lymphocyte percentage of subject 1; crpcol: the name of the CRP column.
BaseVariant ==
    [fail |-> "none", nokey |-> "none", dup |-> "none", empty |-> "none",
     weight |-> "all", lym |-> "pos", crpcol |-> "LBXCRP"]

Variants ==
    {BaseVariant}
    \cup {[BaseVariant EXCEPT !.fail = r] : r \in RoleSet}
    \cup {[BaseVariant EXCEPT !.dup = r] : r \in RoleSet}
    \cup {[BaseVariant EXCEPT !.empty = r] : r \in {"cbc", "mercury"}}
    \cup {[BaseVariant EXCEPT !.weight = w] : w \in {"nan_last", "nan_all", "nocol"}}
    \cup {[BaseVariant EXCEPT !.nokey = "crp"],
          [BaseVariant EXCEPT !.lym = "zero"],
          [BaseVariant EXCEPT !.crpcol = "LBXHSCRP"]}

FullRow(role, v, k) ==
    CASE role = "demo" ->
           [SEQN |-> Num(k),
            WTMEC2YR |-> IF v.weight = "nan_all" \/ (v.weight = "nan_last" /\ k = MaxSubj)
                         THEN NaN ELSE Num(100 * k),
            RIAGENDR |-> Num(1 + (k % 2)),
            RIDRETH1 |-> Num(1 + (k % 5)),
            RIDAGEYR |-> Num(20 * k)]
      [] role = "cbc" ->
           [SEQN |-> Num(k),
            LBXWBCSI |-> Num(5 + k),
            LBXNEPCT |-> Num(60),
            LBXLYPCT |-> IF v.lym = "zero" /\ k = 1 THEN Num(0) ELSE Num(30),
            LBXMOPCT |-> Num(8),
            LBXPLTSI |-> Num(250)]
      [] role = "crp" -> ("SEQN" :> Num(k)) @@ (v.crpcol :> Num(k))
      [] role = "mercury" -> [SEQN |-> Num(k), LBXTHG |-> Num(k)]
      [] role = "dental" ->
           [SEQN |-> Num(k),
            OHX02TC |-> IF k >= 2 THEN Num(AmalgamCode) ELSE Num(1),
            OHX02FS |-> IF k >= 3 THEN Num(AmalgamCode) ELSE NaN,
            OHX03FT |-> IF k >= 4 THEN Num(AmalgamCode) ELSE Num(0),
            OHXIMP |-> Num(AmalgamCode)]

FileTable(role, v) ==
    LET ids == (IF v.empty = role THEN <<>>
                ELSE (IF v.dup = role THEN <<1>> ELSE <<>>)
                     \o [k \in 1..MaxSubj |-> k])
        drop == (IF v.nokey = role THEN {"SEQN"} ELSE {})
                \cup (IF role = "demo" /\ v.weight = "nocol" THEN {"WTMEC2YR"} ELSE {})
        cols == (DOMAIN FullRow(role, v, 1)) \ drop
    IN [cols |-> cols,
        rows |-> [i \in 1..Len(ids) |-> Restrict(FullRow(role, v, ids[i]), cols)]]

CycleFiles(v) ==
    [status |-> [r \in RoleSet |-> IF v.fail = r THEN "missing" ELSE "ok"],
     tables |-> [r \in RoleSet |-> FileTable(r, v)]]

CycleInputs == {CycleFiles(v) : v \in Variants}

(***************************************************************************)
(* descriptive_stats.py: count_amalgam_surfaces and the try block of       *)
(* process_cycles.                                                         *)
(***************************************************************************)
count_amalgam_surfaces(df) ==
    LET cols == {c \in df.cols : IsSurfaceCol(c)}
    IN [cols |-> {"SEQN", "amalgam_surfaces"},
        rows |-> [i \in 1..Len(df.rows) |->
                    [SEQN |-> df.rows[i].SEQN,
                     amalgam_surfaces |->
                        Num(Cardinality({c \in cols : df.rows[i][c] = Num(AmalgamCode)}))]]]

\* LoadRaises with the fifth read (the mercury file) not made
LoadRaisesFirstFour(files) == \E i \in 1..4 : files.status[Roles[i]] # "ok"

\* lines 50-54: pyreadstat.read_xport raises for a file that is not there
LoadRaises(files) == \E i \in 1..Len(Roles) : files.status[Roles[i]] # "ok"

\* lines 55-62: df[["SEQN", ...]] and merge(on="SEQN") raise KeyError for a
\* table without the key column
JoinRaises(files) == \E r \in RoleSet : "SEQN" \notin files.tables[r].cols

\* lines 57-62
MergedTable(files) ==
    LET t == files.tables
    IN Merge(Merge(Merge(Merge(t["demo"], t["cbc"], "inner"),
                         t["crp"], "left"),
                   t["mercury"], "left"),
             count_amalgam_surfaces(t["dental"]), "left")

\* lines 63-76: the Cycle tag and the derived columns of one row
DerivedRow(df, row, cycle) ==
    LET WBC == Get(df, row, "LBXWBCSI", NaN)
        Neutro == Div(Mul(WBC, Get(df, row, "LBXNEPCT", Num(0))), Num(100))
        Lympho == Div(Mul(WBC, Get(df, row, "LBXLYPCT", Num(0))), Num(100))
        Mono == Div(Mul(WBC, Get(df, row, "LBXMOPCT", Num(0))), Num(100))
        Platelets == Get(df, row, "LBXPLTSI", NaN)
    IN [Cycle |-> cycle,
        WBC |-> WBC, Neutro |-> Neutro, Lympho |-> Lympho, Mono |-> Mono,
        Platelets |-> Platelets,
        CRP |-> IF "LBXCRP" \in df.cols THEN row["LBXCRP"]
                ELSE Get(df, row, "LBXHSCRP", NaN),
        BloodMercury |-> Get(df, row, "LBXTHG", NaN),
        NLR |-> Div(Neutro, Lympho),
        MLR |-> Div(Mono, Lympho),
        PLR |-> Div(Platelets, Lympho),
        SII |-> Div(Mul(Neutro, Platelets), Lympho)] @@ row

DerivedCols ==
    {"Cycle", "WBC", "Neutro", "Lympho", "Mono", "Platelets", "CRP",
     "BloodMercury", "NLR", "MLR", "PLR", "SII"}

Derive(df, cycle) ==
    [cols |-> df.cols \cup DerivedCols,
     rows |-> [i \in 1..Len(df.rows) |-> DerivedRow(df, df.rows[i], cycle)]]

\* Sub with dropna applied to the marker column alone
SubMarkerOnly(df, marker) == SelectSeq(df.rows, LAMBDA r : ~IsNa(r[marker]))

\* line 81: df[[marker, "WTMEC2YR"]].dropna()
Sub(df, marker) ==
    SelectSeq(df.rows, LAMBDA r : ~IsNa(r[marker]) /\ ~IsNa(r["WTMEC2YR"]))

\* line 81 raises KeyError when the merged table has no WTMEC2YR column
SummaryRaises(df) == "WTMEC2YR" \notin df.cols

\* lines 80-93 for one marker: nothing when sub is empty, else one record.
\* weighted_stats returns numbers for every numeric input (its except
\* branch takes the unweighted mean and variance); Mean, SD and the
\* interval are not part of the model's record.
SummaryOf(df, cycle, marker) ==
    LET sub == Sub(df, marker)
    IN IF sub = <<>> THEN <<>>
       ELSE <<[Cycle |-> cycle, Marker |-> marker, SampleSize |-> Len(sub)]>>

SummaryRecords(df, cycle) ==
    Flatten([i \in 1..Len(Markers) |-> SummaryOf(df, cycle, Markers[i])])

(***************************************************************************)
(* descriptive_stats.py: categorize_amalgam; analysis.py: prepare_groups.  *)
(* A label is a string; NaNLabel stands for the missing label (NaN).  The  *)
(* age labels are written with "-" for the source's en dash.               *)
(***************************************************************************)
NaNLabel == "NaN"

ExposureLabels == {"None", "Low", "Medium", "High"}

GenderLabels == {"Male", "Female"}

RaceLabels ==
    {"Mexican American", "Other Hispanic", "Non-Hispanic White",
     "Non-Hispanic Black", "Other Race/Multi-Racial"}

AgeLabels == <<"0-19", "20-39", "40-59", "60+">>

\* categorize_amalgam with the bounds 5 and 10 excluded
categorize_amalgam_strict(surfaces) ==
    IF IsNa(surfaces) THEN NaNLabel
    ELSE IF EqInt(surfaces, 0) THEN "None"
    ELSE IF LeqInt(surfaces, 4) THEN "Low"
    ELSE IF LeqInt(surfaces, 9) THEN "Medium"
    ELSE "High"

categorize_amalgam(surfaces) ==
    IF IsNa(surfaces) THEN NaNLabel
    ELSE IF EqInt(surfaces, 0) THEN "None"
    ELSE IF LeqInt(surfaces, 5) THEN "Low"
    ELSE IF LeqInt(surfaces, 10) THEN "Medium"
    ELSE "High"

\* Series.replace({1: "Male", 2: "Female"}): a value that is no key of the
\* mapping is left as it is (here: printed), a missing value stays missing
GenderOf(code) ==
    IF EqInt(code, 1) THEN "Male"
    ELSE IF EqInt(code, 2) THEN "Female"
    ELSE IF IsNa(code) THEN NaNLabel
    ELSE ToString(code)

RaceOf(code) ==
    IF EqInt(code, 1) THEN "Mexican American"
    ELSE IF EqInt(code, 2) THEN "Other Hispanic"
    ELSE IF EqInt(code, 3) THEN "Non-Hispanic White"
    ELSE IF EqInt(code, 4) THEN "Non-Hispanic Black"
    ELSE IF EqInt(code, 5) THEN "Other Race/Multi-Racial"
    ELSE IF IsNa(code) THEN NaNLabel
    ELSE ToString(code)

\* pd.cut(bins=[0, 19, 39, 59, inf], right=True): the intervals (0, 19],
\* (19, 39], (39, 59], (59, inf]; a value in none of them, and a missing
\* value, give NaN
AgeGroupOf(age) ==
    IF IsNa(age) THEN NaNLabel
    ELSE IF LeqInt(age, 0) THEN NaNLabel
    ELSE IF LeqInt(age, 19) THEN AgeLabels[1]
    ELSE IF LeqInt(age, 39) THEN AgeLabels[2]
    ELSE IF LeqInt(age, 59) THEN AgeLabels[3]
    ELSE AgeLabels[4]

GroupCols == {"Amalgam Group", "Gender", "Race", "AgeGroup"}

PrepareRow(row) ==
    ("Amalgam Group" :> categorize_amalgam(row["amalgam_surfaces"]))
    @@ ("Gender" :> GenderOf(row["RIAGENDR"]))
    @@ ("Race" :> RaceOf(row["RIDRETH1"]))
    @@ ("AgeGroup" :> AgeGroupOf(row["RIDAGEYR"]))
    @@ row

prepare_groups(df) ==
    [cols |-> df.cols \cup GroupCols,
     rows |-> [i \in 1..Len(df.rows) |-> PrepareRow(df.rows[i])]]

(***************************************************************************)
(* process_cycles and the start of analysis.main as a state machine.       *)
(***************************************************************************)
NoTable == [cols |-> {}, rows |-> <<>>]

Init ==
    /\ data_dir \in [Cycles -> CycleInputs]
    /\ pc = "load"
    /\ cyc = 1
    /\ df_all = <<>>
    /\ all_summaries = <<>>
    /\ skipped = {}
    /\ combined_df = NoTable
    /\ summary_df = <<>>
    /\ labeled = NoTable
    /\ tdf = <<>>
    /\ tstage = "off"
    /\ results = {}

\* the for loop moves to the next configured cycle, or leaves the loop
NextCycle ==
    /\ cyc' = cyc + 1
    /\ pc' = IF cyc = NumCycles THEN "concat" ELSE "load"

\* lines 49-78 and 94-95: the five reads, the joins, the derived columns and
\* df_all.append(df); an exception ends the cycle with "Skipped"
LoadJoin ==
    /\ pc = "load"
    /\ IF LoadRaises(data_dir[cyc]) \/ JoinRaises(data_dir[cyc])
       THEN /\ skipped' = skipped \cup {cyc}
            /\ NextCycle
            /\ UNCHANGED df_all
       ELSE /\ df_all' = Append(df_all, Derive(MergedTable(data_dir[cyc]), cyc))
            /\ pc' = "summary"
            /\ UNCHANGED <<cyc, skipped>>
    /\ UNCHANGED <<data_dir, all_summaries, combined_df, summary_df, labeled>>
    /\ UNCHANGED tvars

\* lines 80-95: the marker loop over the table just appended
Summarize ==
    /\ pc = "summary"
    /\ LET df == df_all[Len(df_all)] IN
       IF SummaryRaises(df)
       THEN /\ skipped' = skipped \cup {cyc}
            /\ UNCHANGED all_summaries
       ELSE /\ all_summaries' = all_summaries \o SummaryRecords(df, cyc)
            /\ UNCHANGED skipped
    /\ NextCycle
    /\ UNCHANGED <<data_dir, df_all, combined_df, summary_df, labeled>>
    /\ UNCHANGED tvars

\* lines 97-99: pd.concat raises ValueError ("No objects to concatenate")
\* for an empty list, and then process_cycles raises
ConcatAll ==
    /\ pc = "concat"
    /\ IF df_all = <<>>
       THEN /\ pc' = "raised"
            /\ UNCHANGED <<combined_df, summary_df>>
       ELSE /\ combined_df' = Concat(df_all)
            /\ summary_df' = all_summaries
            /\ pc' = "returned"
    /\ UNCHANGED <<data_dir, cyc, df_all, all_summaries, skipped, labeled>>
    /\ UNCHANGED tvars

\* analysis.py:104-105
MainPrepareGroups ==
    /\ pc = "returned"
    /\ labeled' = prepare_groups(combined_df)
    /\ pc' = "grouped"
    /\ UNCHANGED <<data_dir, cyc, df_all, all_summaries, skipped, combined_df,
                   summary_df>>
    /\ UNCHANGED tvars

Next == LoadJoin \/ Summarize \/ ConcatAll \/ MainPrepareGroups

Spec == Init /\ [][Next]_vars

(***************************************************************************)
(* analysis.py: run_t_tests.  In SpecG and SpecT a table is a sequence of  *)
(* blocks [row, n]: n rows that agree in every column the two functions    *)
(* read.  A p-value is an integer count of 1e-7; PNaN is the NaN scipy     *)
(* returns for degenerate samples.  The t statistic and the order of the   *)
(* result rows are not part of the model.                                  *)
(***************************************************************************)
StrataVars == <<"Gender", "Race", "AgeGroup">>

Comparisons == <<<<"None", "Low">>, <<"None", "Medium">>, <<"None", "High">>>>

\* analysis.py:50, the smallest group that is tested
MinObs == 10

\* analysis.py:63, the threshold 0.05 in units of 1e-7
Alpha == 500000

\* round(pval, 5): to the nearest multiple of 1e-5 (100 units); the model's
\* p-values are never half-way between two multiples
Round5(p) == IF p = PNaN THEN PNaN ELSE ((p + 50) \div 100) * 100

\* pval < 0.05; a comparison with NaN is False
IsSignificant(p) == p # PNaN /\ p < Alpha

RECURSIVE Count(_)
\* len() of a sequence of blocks
Count(blocks) == IF blocks = <<>> THEN 0 ELSE Head(blocks).n + Count(Tail(blocks))

prepare_groups_blocks(blocks) ==
    [i \in 1..Len(blocks) |-> [row |-> PrepareRow(blocks[i].row), n |-> blocks[i].n]]

\* TooFew with a group of exactly MinObs skipped as well
TooFewInclusive(n1, n2) == n1 <= MinObs \/ n2 <= MinObs

\* line 50: the combination is skipped
TooFew(n1, n2) == n1 < MinObs \/ n2 < MinObs

\* lines 44-64 for one group of one stratifying variable of one cycle
TTestRows(cycle, strata, strata_value, df_sub, p) ==
    LET vals(var, marker) ==
            SelectSeq(df_sub, LAMBDA b : b.row["Amalgam Group"] = var
                                         /\ ~IsNa(b.row[marker]))
        \* <<comparison, marker, len(g1_vals), len(g2_vals)>> of each iteration
        sizes == {<<y[1], y[2],
                    Count(vals(Comparisons[y[1]][1], Markers[y[2]])),
                    Count(vals(Comparisons[y[1]][2], Markers[y[2]]))>> :
                     y \in (1..Len(Comparisons)) \X (1..Len(Markers))}
    IN {[Cycle |-> cycle,
         Strata |-> strata,
         Group |-> strata_value,
         Marker |-> Markers[x[2]],
         Comparison |-> Comparisons[x[1]],
         Group1n |-> x[3],
         Group2n |-> x[4],
         pvalue |-> Round5(p),
         Significant |-> IsSignificant(p)] :
            x \in {y \in sizes : ~TooFew(y[3], y[4])}}

\* df.groupby(col): the groups of the values of col that are present, a
\* missing value forming no group; for the categorical AgeGroup every
\* category has a group, possibly empty
GroupKeys(blocks, col) ==
    ({blocks[i].row[col] : i \in 1..Len(blocks)} \ {NaNLabel})
    \cup (IF col = "AgeGroup" THEN {AgeLabels[i] : i \in 1..Len(AgeLabels)} ELSE {})

\* lines 39-43: the strata values that are iterated and not skipped
StrataValues(df_cycle, strata) ==
    {v \in GroupKeys(df_cycle, strata) : v # NaNLabel}

run_t_tests(df, p) ==
    LET cycles == {df[i].row["Cycle"] : i \in 1..Len(df)}
        df_cycle(c) == SelectSeq(df, LAMBDA b : b.row["Cycle"] = c)
        df_sub(c, s, v) == SelectSeq(df_cycle(c), LAMBDA b : b.row[s] = v)
    IN UNION {UNION {UNION {TTestRows(c, StrataVars[i], v,
                                      df_sub(c, StrataVars[i], v), p) :
                                v \in StrataValues(df_cycle(c), StrataVars[i])} :
                        i \in 1..Len(StrataVars)} :
                 c \in cycles}

(***************************************************************************)
(* prepare_groups and run_t_tests as a state machine (SpecG, SpecT).       *)
(***************************************************************************)
\* the p-values ttest_ind may return in a run
PGrid == {PNaN, Alpha - 60, Alpha - 40, Alpha, Alpha + 60}

TRow(cycle, gender, race, age, surfaces, measured) ==
    [m \in MarkerSet |-> IF m \in measured THEN Num(3) ELSE NaN]
    @@ ("Cycle" :> cycle) @@ ("RIAGENDR" :> gender) @@ ("RIDRETH1" :> race)
    @@ ("RIDAGEYR" :> age) @@ ("amalgam_surfaces" :> surfaces)

NonEmpty(blocks) == SelectSeq(blocks, LAMBDA b : b.n > 0)

\* raw demographic codes of the tables of SpecT: (gender, race, age)
Demographics ==
    {Num(1), Num(3), NaN} \X {<<Num(3), Num(30)>>, <<Num(7), Num(0)>>, <<NaN, NaN>>}

\* SpecT: a group without amalgam of n1 subjects in cycle 1, a second group
\* of n2 subjects with surface count s2 in cycle c2, k3 more subjects without
\* amalgam whose marker is missing; all of one gender and age, the second
\* group of the same race or of race 4, and with one marker measured
InitT ==
    /\ \E n1 \in (MinObs - 1)..(MinObs + MaxExtra), n2 \in {MinObs - 1, MinObs},
          k3 \in {0, 1}, c2 \in Cycles, same \in BOOLEAN,
          s2 \in {Num(3), Num(7), Num(12), NaN},
          d \in Demographics, m \in MarkerSet :
          tdf = NonEmpty(<<
                  [row |-> TRow(1, d[1], d[2][1], d[2][2], Num(0), {m}), n |-> n1],
                  [row |-> TRow(c2, d[1], IF same THEN d[2][1] ELSE Num(4),
                                d[2][2], s2, {m}), n |-> n2],
                  [row |-> TRow(1, d[1], d[2][1], d[2][2], Num(0), {}), n |-> k3]>>)
    /\ tstage = "raw"
    /\ results = {}
    /\ data_dir = <<>>
    /\ pc = "off"
    /\ cyc = 0
    /\ df_all = <<>>
    /\ all_summaries = <<>>
    /\ skipped = {}
    /\ combined_df = NoTable
    /\ summary_df = <<>>
    /\ labeled = NoTable

NumOrNaN(S) == {Num(n) : n \in S} \cup {NaN}

\* SpecG: one subject whose age, surface count and gender / race code range
\* over 0..MaxAge, 0..MaxSurf and 0..MaxCode, each also missing
InitG ==
    /\ \E age \in NumOrNaN(0..MaxAge), s \in NumOrNaN(0..MaxSurf),
          code \in NumOrNaN(0..MaxCode) :
          tdf = <<[row |-> TRow(1, code, code, age, s, MarkerSet), n |-> 1]>>
    /\ tstage = "raw"
    /\ results = {}
    /\ data_dir = <<>>
    /\ pc = "off"
    /\ cyc = 0
    /\ df_all = <<>>
    /\ all_summaries = <<>>
    /\ skipped = {}
    /\ combined_df = NoTable
    /\ summary_df = <<>>
    /\ labeled = NoTable

\* analysis.py:105
PrepareGroups ==
    /\ tstage = "raw"
    /\ tdf' = prepare_groups_blocks(tdf)
    /\ tstage' = "grouped"
    /\ UNCHANGED results
    /\ UNCHANGED pvars

\* analysis.py:106; p is the p-value ttest_ind returns in this run
RunTTests ==
    /\ tstage = "grouped"
    /\ \E p \in PGrid : results' = run_t_tests(tdf, p)
    /\ tstage' = "tested"
    /\ UNCHANGED tdf
    /\ UNCHANGED pvars

NextT == PrepareGroups \/ RunTTests

SpecT == InitT /\ [][NextT]_vars

SpecG == InitG /\ [][NextT]_vars

(***************************************************************************)
(* Properties of process_cycles (checked under Spec).                      *)
(***************************************************************************)
\* the rows process_cycles has accumulated, over the union of the columns
AllRows == IF df_all = <<>> THEN <<>> ELSE Concat(df_all).rows

CycleRows(c) == SelectSeq(AllRows, LAMBDA r : r["Cycle"] = c)

CycleSummaries(c) == SelectSeq(all_summaries, LAMBDA s : s.Cycle = c)

\* the loop has left the cycle behind
Passed(c) == c < cyc

LoopOver == pc \in {"concat", "returned", "raised", "grouped"}

Returned == pc \in {"returned", "grouped"}

\* one of the cycle's five files is not in the directory
FileMissing(c) == \E r \in RoleSet : data_dir[c].status[r] = "missing"

\* what the try block of one cycle appends, read off the files alone
TryAppended(c) ==
    IF LoadRaises(data_dir[c]) \/ JoinRaises(data_dir[c]) THEN <<>>
    ELSE <<Derive(MergedTable(data_dir[c]), c)>>

TrySummaries(c) ==
    LET appended == TryAppended(c)
    IN IF appended = <<>> \/ SummaryRaises(appended[1]) THEN <<>>
       ELSE SummaryRecords(appended[1], c)

\* the configuration without the cycles that miss a file
KeptCycles == SelectSeq([i \in 1..NumCycles |-> i], LAMBDA c : ~FileMissing(c))

\* C1: a cycle one of whose five files is missing contributes no row to the
\* combined dataset and no record to the summary table, and what the run
\* accumulates and returns is exactly what it accumulates and returns for
\* the configuration without those cycles.
C1_MissingFileCycleIsSkipped ==
    LET kept == KeptCycles
        kept_dfs == Flatten([i \in 1..Len(kept) |-> TryAppended(kept[i])])
        kept_summaries == Flatten([i \in 1..Len(kept) |-> TrySummaries(kept[i])])
    IN /\ \A c \in Cycles :
             FileMissing(c) =>
                /\ \A i \in 1..Len(df_all) : \A j \in 1..Len(df_all[i].rows) :
                       df_all[i].rows[j]["Cycle"] # c
                /\ CycleSummaries(c) = <<>>
                /\ \A i \in 1..Len(combined_df.rows) : combined_df.rows[i]["Cycle"] # c
                /\ \A i \in 1..Len(summary_df) : summary_df[i].Cycle # c
       /\ LoopOver => df_all = kept_dfs /\ all_summaries = kept_summaries
       /\ Returned => combined_df = Concat(kept_dfs) /\ summary_df = kept_summaries

\* C1 witness: the run returned, one cycle missed a file and another one
\* contributed rows and summary records
C1_Witness ==
    /\ pc = "returned"
    /\ \E c \in Cycles : FileMissing(c)
    /\ Len(combined_df.rows) > 0
    /\ Len(summary_df) > 0

\* C2: whatever cycles fail, process_cycles returns its two tables and does
\* not raise.
C2_NeverRaises == pc # "raised"

\* the table of one cycle has at most one row per subject identifier
UniqueKeys(rows) ==
    \A i, j \in 1..Len(rows) : rows[i]["SEQN"] = rows[j]["SEQN"] => i = j

\* no source table of the cycle holds a subject identifier twice
SourcesUnique(c) ==
    \A r \in RoleSet :
        "SEQN" \in data_dir[c].tables[r].cols => UniqueKeys(data_dir[c].tables[r].rows)

CycleRowsOf(df, c) == SelectSeq(df.rows, LAMBDA r : r["Cycle"] = c)

\* C8 as stated: the merged, the combined and the labeled table hold at most
\* one row per subject identifier per cycle, whatever the source tables hold.
C8_OneRowPerSubject ==
    \A c \in Cycles :
        /\ \A i \in 1..Len(df_all) : UniqueKeys(CycleRowsOf(df_all[i], c))
        /\ UniqueKeys(CycleRowsOf(combined_df, c))
        /\ UniqueKeys(CycleRowsOf(labeled, c))

\* C8 amended: the same for every cycle none of whose five source tables
\* holds a subject identifier twice.
C8_OneRowPerSubjectOfUniqueSources ==
    \A c \in Cycles :
        SourcesUnique(c) =>
            /\ \A i \in 1..Len(df_all) : UniqueKeys(CycleRowsOf(df_all[i], c))
            /\ UniqueKeys(CycleRowsOf(combined_df, c))
            /\ UniqueKeys(CycleRowsOf(labeled, c))

\* C8 witness: a cycle with unique source keys put MaxSubj subjects in the
\* labeled table
C8_Witness ==
    /\ pc = "grouped"
    /\ \E c \in Cycles :
          SourcesUnique(c) /\ Len(CycleRowsOf(labeled, c)) = MaxSubj

\* the cycle went through its try block without an exception
Processed(c) == Passed(c) /\ c \notin skipped

BothPresent(r, m) == ~IsNa(r[m]) /\ ~IsNa(r["WTMEC2YR"])

RecordsOf(c, m) == SelectSeq(all_summaries, LAMBDA s : s.Cycle = c /\ s.Marker = m)

\* the rows the cycle appended; a processed cycle's table has every column
\* BothPresent reads
AppendedRows(c) ==
    Flatten([i \in 1..Len(df_all) |-> CycleRowsOf(df_all[i], c)])

\* the rows with marker and weight present, and their subjects
RowsWithBoth(rows, m) == {j \in 1..Len(rows) : BothPresent(rows[j], m)}

SubjectsWithBoth(rows, m) == {rows[j]["SEQN"] : j \in RowsWithBoth(rows, m)}

\* C9 as stated: for a processed cycle and a marker there is a summary record
\* iff some subject has marker and weight, there is at most one, and its
\* Sample Size is the number of such subjects.
C9_SampleSizeCountsSubjects ==
    \A c \in Cycles :
        Processed(c) =>
            LET rows == AppendedRows(c) IN
            \A m \in MarkerSet :
                LET recs == RecordsOf(c, m)
                    subjects == SubjectsWithBoth(rows, m)
                IN /\ Len(recs) = (IF subjects = {} THEN 0 ELSE 1)
                   /\ \A i \in 1..Len(recs) :
                         recs[i].SampleSize = Cardinality(subjects)

\* C9 amended: the Sample Size is the number of rows of the cycle's merged
\* table with marker and weight present (at least 1), which is the number of
\* such subjects when no source table holds a subject identifier twice.
C9_SampleSizeCountsRows ==
    \A c \in Cycles :
        Processed(c) =>
            LET rows == AppendedRows(c) IN
            \A m \in MarkerSet :
                LET recs == RecordsOf(c, m)
                    subjects == SubjectsWithBoth(rows, m)
                IN /\ Len(recs) = (IF subjects = {} THEN 0 ELSE 1)
                   /\ \A i \in 1..Len(recs) :
                         /\ recs[i].SampleSize = Cardinality(RowsWithBoth(rows, m))
                         /\ recs[i].SampleSize >= 1
                         /\ SourcesUnique(c) =>
                               recs[i].SampleSize = Cardinality(subjects)

\* C9 witness: a processed cycle with a record for one marker and none for
\* another, and a processed cycle whose record counts some but not all of
\* its rows
C9_Witness ==
    /\ \E c \in Cycles : \E m1, m2 \in MarkerSet :
          /\ Processed(c)
          /\ Len(RecordsOf(c, m1)) = 1
          /\ Len(RecordsOf(c, m2)) = 0
    /\ \E c \in Cycles : \E m \in MarkerSet :
          /\ Processed(c)
          /\ Len(RecordsOf(c, m)) = 1
          /\ RecordsOf(c, m)[1].SampleSize < Len(AppendedRows(c))

\* C10: a cycle reported as skipped has no row in the accumulated tables and
\* no record in the summaries.
C10_SkippedCycleContributesNothing ==
    \A c \in skipped : CycleRows(c) = <<>> /\ CycleSummaries(c) = <<>>

(***************************************************************************)
(* Properties of categorize_amalgam and prepare_groups (checked under      *)
(* SpecG) and of run_t_tests (checked under SpecT).                        *)
(***************************************************************************)
Grouped == tstage \in {"grouped", "tested"}

\* the value is the integer n
IsInt(v, n) == v = Num(n)

\* C5: categorize_amalgam gives None iff s = 0, Low iff 1 <= s <= 5, Medium
\* iff 6 <= s <= 10, High iff s > 10, and the missing label iff s is missing.
C5_CategorizeThresholds ==
    Grouped =>
        \A i \in 1..Len(tdf) :
            LET s == tdf[i].row["amalgam_surfaces"]
                g == tdf[i].row["Amalgam Group"]
            IN /\ (g = "None") <=> IsInt(s, 0)
               /\ (g = "Low") <=> \E n \in 1..5 : IsInt(s, n)
               /\ (g = "Medium") <=> \E n \in 6..10 : IsInt(s, n)
               /\ (g = "High") <=> (s # NaN /\ s[1] > 10 * s[2])
               /\ (g = NaNLabel) <=> (s = NaN)
               /\ g \in ExposureLabels \cup {NaNLabel}

\* C5 witness: ten surfaces were labeled Medium
C5_Witness ==
    /\ tstage = "grouped"
    /\ \E i \in 1..Len(tdf) :
          /\ IsInt(tdf[i].row["amalgam_surfaces"], 10)
          /\ tdf[i].row["Amalgam Group"] = "Medium"

\* the bin the claim gives an age of n years
ClaimedAgeBin(n) ==
    IF n <= 19 THEN AgeLabels[1]
    ELSE IF n <= 39 THEN AgeLabels[2]
    ELSE IF n <= 59 THEN AgeLabels[3]
    ELSE AgeLabels[4]

\* C7: prepare_groups puts every non-missing age a >= 0 in the bin 0-19 iff
\* 0 <= a <= 19, 20-39 iff 20 <= a <= 39, 40-59 iff 40 <= a <= 59, 60+ iff
\* a >= 60; only a missing age gets the missing label.
C7_AgeBins ==
    Grouped =>
        \A i \in 1..Len(tdf) :
            LET a == tdf[i].row["RIDAGEYR"]
                g == tdf[i].row["AgeGroup"]
            IN /\ (g = NaNLabel) <=> (a = NaN)
               /\ \A n \in 0..(MaxAge + 1) : IsInt(a, n) => g = ClaimedAgeBin(n)

StrataSet == {StrataVars[i] : i \in 1..Len(StrataVars)}

\* the category labels of a stratifying variable
FixedLabels(strata) ==
    IF strata = "Gender" THEN GenderLabels
    ELSE IF strata = "Race" THEN RaceLabels
    ELSE {AgeLabels[i] : i \in 1..Len(AgeLabels)}

\* the subjects of a cycle and stratum
Stratum(c, strata, v) ==
    SelectSeq(tdf, LAMBDA b : b.row["Cycle"] = c /\ b.row[strata] = v)

\* those of an exposure group whose marker is there
Observations(stratum, exposure, marker) ==
    Count(SelectSeq(stratum, LAMBDA b : /\ b.row["Amalgam Group"] = exposure
                                        /\ ~IsNa(b.row[marker])))

\* the stratum values of the table: the labels present, the fixed ones
PresentValues(strata) ==
    ({tdf[i].row[strata] : i \in 1..Len(tdf)} \cup FixedLabels(strata)) \ {NaNLabel}

RowsFor(c, strata, v, k, marker) ==
    {r \in results : /\ r.Cycle = c /\ r.Strata = strata /\ r.Group = v
                     /\ r.Comparison = Comparisons[k] /\ r.Marker = marker}

\* C3: run_t_tests emits a row for (cycle, stratifying variable, stratum
\* value, marker, pair) iff both groups have at least 10 non-missing marker
\* observations; an emitted row carries the two sizes, both at least 10.
C3_RowIffBothGroupsAtLeastTen ==
    tstage = "tested" =>
        /\ \A c \in Cycles : \A strata \in StrataSet :
           \A v \in PresentValues(strata) :
              LET stratum == Stratum(c, strata, v) IN
              \A k \in 1..Len(Comparisons) : \A marker \in MarkerSet :
                 LET n1 == Observations(stratum, Comparisons[k][1], marker)
                     n2 == Observations(stratum, Comparisons[k][2], marker)
                     rows == RowsFor(c, strata, v, k, marker)
                 IN /\ (rows # {}) <=> (n1 >= 10 /\ n2 >= 10)
                    /\ Cardinality(rows) <= 1
                    /\ \A r \in rows : r.Group1n = n1 /\ r.Group2n = n2
        /\ \A r \in results :
              /\ r.Group1n >= 10 /\ r.Group2n >= 10
              /\ r.Cycle \in Cycles /\ r.Strata \in StrataSet
              /\ r.Group \in PresentValues(r.Strata)

\* C3 witness: a row for two groups of exactly 10 observations, in a table
\* that holds an eleventh subject of the first group whose marker is missing
C3_Witness ==
    /\ tstage = "tested"
    /\ \E r \in results : r.Group1n = 10 /\ r.Group2n = 10
    /\ \E i \in 1..Len(tdf) : \A m \in MarkerSet : IsNa(tdf[i].row[m])

\* C4: in every result row the significance flag is true iff the p-value
\* recorded in the row, rounded to 5 decimals, is below 0.05.
C4_FlagMatchesRecordedP ==
    \A r \in results :
        r.Significant <=> (r.pvalue # PNaN /\ r.pvalue < Alpha)

\* C6: the Group of every result row is one of the category labels of its
\* stratifying variable.
C6_GroupIsKnownCategory ==
    \A r \in results : r.Group \in FixedLabels(r.Strata)

====
